---- MODULE Spec2Model ----
(***************************************************************************)
(* Verification model of polyglot/mapping/embeddings.py.                   *)
(*                                                                         *)
(* Three specifications share this module:                                 *)
(*   Spec      the Embedding container (construction, lookup, membership,  *)
(*             iteration, deletion, frequency trim);                       *)
(*   SpecLoad  one call of Embedding.from_word2vec, the binary and the     *)
(*             text parser run statement by statement against an input     *)
(*             source that hands out its bytes / lines read by read;       *)
(*   SpecBin   the calls of SpecLoad with binary=True and no count file.   *)
(* The vocabulary classes (base.py) are not part of the source at hand;    *)
(* they are modelled from the specification's interface description as an  *)
(* ordered sequence of distinct tokens whose position is the dense index.  *)
(***************************************************************************)
EXTENDS Integers, Sequences, FiniteSets, TLC

VARIABLES
  \* ---- Embedding container (Spec) ----
  vocabulary,   \* self.vocabulary: sequence of distinct tokens, index = position - 1
  vectors,      \* self.vectors: sequence of rows, row i+1 is numpy row i
  ret,          \* value returned by the last completed operation
  err,          \* exception raised by the last operation, NoErr when none
  lastOp,       \* <<name, arguments...>> of the last operation (for "new": the two sizes)
  \* ---- from_word2vec call (SpecLoad) ----
  pc,           \* position inside from_word2vec / the parser
  binary,       \* the `binary` argument
  fvocab,       \* the `fvocab` argument: None, or "given" for a count file
  srcKind,      \* "path": fname is a unicode path; "handle": an open file object
  srcState,     \* "unopened" | "open" | "closed": state of the source file object
  loadVocab,    \* local `vocabulary` of from_word2vec (None or a vocabulary)
  vocab_size,   \* header field 1
  layer1_size,  \* header field 2
  consumed,     \* binary: bytes read so far after the header; text: lines read so far
  eof,          \* the source has reported end of input
  line_no,      \* loop variable of the record loop
  word,         \* binary: list of the chunks appended to `word` in the token loop
  words,        \* list of tokens parsed so far
  matrix,       \* local `vectors` of the parser (vocab_size x layer1_size)
  recStart,     \* binary: offset in consumed at which the current record began
  marks         \* binary: per record whose row was stored, its offsets in consumed

embVars == <<vocabulary, vectors, ret, err, lastOp>>
loadVars == <<pc, binary, fvocab, srcKind, srcState, loadVocab, vocab_size, layer1_size,
              consumed, eof, line_no, word, words, matrix, recStart, marks>>
vars == <<embVars, loadVars>>

----------------------------------------------------------------------------
(* Bounds of the model *)

MaxRows == 3
MaxK == 4
MaxVocab == 2        \* largest vocab_size a header announces
MaxDim == 2          \* largest layer1_size a header announces
MaxTokRead == 2      \* most reads the token loop of one record makes before the space
MaxBytes == 14       \* most bytes a binary source holds after its header
MaxLines == 3        \* most record lines a text source holds after its header
MaxVocabLines == 2   \* most lines a count file holds

Tokens == {"a", "b", "c"}
Rows == {<<0, 1>>, <<1, 0>>}

None == "None"
\* a returned value, tagged with its kind
Val(k, v) == [kind |-> k, val |-> v]
NoVal == Val("none", None)
Self == Val("self", None)
NoErr == [type |-> "none", at |-> "none", line |-> -1]
Error(t, a) == [type |-> t, at |-> a, line |-> -1]
\* an exception whose message names a line number
ErrorOnLine(t, a, n) == [type |-> t, at |-> a, line |-> n]

----------------------------------------------------------------------------
(* Helpers on sequences *)

Range(s) == {s[i] : i \in 1..Len(s)}

Min(a, b) == IF a <= b THEN a ELSE b

IsInjective(s) == \A i, j \in 1..Len(s) : s[i] = s[j] => i = j

SeqsUpTo(S, n) == UNION {[1..k -> S] : k \in 0..n}

RemoveAt(s, i) == SubSeq(s, 1, i - 1) \o SubSeq(s, i + 1, Len(s))

----------------------------------------------------------------------------
(* Vocabulary collaborator (base.py, modelled from the interface in the     *)
(* specification): a bijection token <-> dense index in [0, len).           *)

VocabLen(v) == Len(v)

VocabContains(v, k) == k \in Range(v)

\* 0-based dense index of token k (defined when k is present)
VocabIndex(v, k) == (CHOOSE i \in 1..Len(v) : v[i] = k) - 1

\* remove(token): indices above the removed one shift down by one
VocabRemove(v, k) == RemoveAt(v, VocabIndex(v, k) + 1)

\* keep the top k by frequency; the vocabulary is kept in frequency order
VocabMostFrequent(v, k) == SubSeq(v, 1, Min(k, Len(v)))

Vocabularies == {v \in SeqsUpTo(Tokens, MaxRows) : IsInjective(v)}

Matrices == SeqsUpTo(Rows, MaxRows)

----------------------------------------------------------------------------
(* Embedding container *)

\* numpy: np.delete(arr, index, 0) with a 0-based index
NpDelete(m, index) == RemoveAt(m, index + 1)

\* a size check that only rejects a vocabulary larger than the matrix
SizeMismatchOneSided(voc, vecs) == VocabLen(voc) > Len(vecs)

\* __init__ line 34: the size check
SizeMismatch(voc, vecs) == VocabLen(voc) # Len(vecs)

\* __getitem__: self.vectors[self.vocabulary[k]]
GetItem(voc, vecs, k) == vecs[VocabIndex(voc, k) + 1]

\* a deletion that forgets the matrix
DelRowsKeepAll(vecs, index) == vecs

\* a deletion that drops the last row instead of the row of `index`
DelRowsLast(vecs, index) == SubSeq(vecs, 1, Len(vecs) - 1)

\* __delitem__ line 52: the matrix after the row of `index` is dropped
DelRows(vecs, index) == NpDelete(vecs, index)

\* a gather that takes the last rows of the matrix instead of the tokens' rows
GatherRowsTail(voc, vecs, sub) ==
  [i \in 1..Len(sub) |-> vecs[Len(vecs) - Len(sub) + i]]

\* most_frequent line 72: rows gathered in the order of the trimmed vocabulary
GatherRows(voc, vecs, sub) == [i \in 1..Len(sub) |-> GetItem(voc, vecs, sub[i])]

EmbeddingOf(voc, vecs) == [vocabulary |-> voc, vectors |-> vecs]

Construct(voc, vecs) ==
  /\ lastOp' = <<"new", VocabLen(voc), Len(vecs)>>
  /\ IF SizeMismatch(voc, vecs)
       THEN /\ err' = Error("ValueError", "__init__")
            /\ ret' = NoVal
            /\ UNCHANGED <<vocabulary, vectors>>
       ELSE /\ err' = NoErr
            /\ vocabulary' = voc
            /\ vectors' = vecs
            /\ ret' = Self
  /\ UNCHANGED loadVars

Get(k) ==
  /\ lastOp' = <<"get", k>>
  /\ IF VocabContains(vocabulary, k)
       THEN /\ ret' = Val("vector", GetItem(vocabulary, vectors, k))
            /\ err' = NoErr
       ELSE /\ ret' = NoVal
            /\ err' = Error("KeyError", "__getitem__")
  /\ UNCHANGED <<vocabulary, vectors, loadVars>>

Contains(k) ==
  /\ lastOp' = <<"contains", k>>
  /\ ret' = Val("bool", VocabContains(vocabulary, k))
  /\ err' = NoErr
  /\ UNCHANGED <<vocabulary, vectors, loadVars>>

LenOp ==
  /\ lastOp' = <<"len">>
  /\ ret' = Val("int", VocabLen(vocabulary))
  /\ err' = NoErr
  /\ UNCHANGED <<vocabulary, vectors, loadVars>>

Iterate ==
  /\ lastOp' = <<"iter">>
  /\ ret' = Val("items", [i \in 1..VocabLen(vocabulary) |->
                 <<vocabulary[i], GetItem(vocabulary, vectors, vocabulary[i])>>])
  /\ err' = NoErr
  /\ UNCHANGED <<vocabulary, vectors, loadVars>>

Remove(k) ==
  /\ lastOp' = <<"remove", k>>
  /\ IF VocabContains(vocabulary, k)
       THEN LET index == VocabIndex(vocabulary, k)
            IN  /\ vocabulary' = VocabRemove(vocabulary, k)
                /\ vectors' = DelRows(vectors, index)
                /\ ret' = NoVal
                /\ err' = NoErr
       ELSE /\ err' = Error("KeyError", "__delitem__")
            /\ ret' = NoVal
            /\ UNCHANGED <<vocabulary, vectors>>
  /\ UNCHANGED loadVars

MostFrequent(k, inplace) ==
  LET sub == VocabMostFrequent(vocabulary, k)
      rows == GatherRows(vocabulary, vectors, sub)
  IN  /\ lastOp' = <<"most_frequent", k, inplace>>
      /\ IF inplace
           THEN /\ vocabulary' = sub
                /\ vectors' = rows
                /\ ret' = Self
                /\ err' = NoErr
           ELSE /\ UNCHANGED <<vocabulary, vectors>>
                /\ IF SizeMismatch(sub, rows)
                     THEN /\ ret' = NoVal
                          /\ err' = Error("ValueError", "__init__")
                     ELSE /\ ret' = Val("embedding", EmbeddingOf(sub, rows))
                          /\ err' = NoErr
      /\ UNCHANGED loadVars

----------------------------------------------------------------------------
(* Bytes and text *)

SP == 32
NL == 10
ItemSize == 4

\* bytes a binary source may hold in token position: newline, 'a', and a non-ASCII byte
TokBytes == {NL, 97, 195}
White == {SP, NL, 9}

RECURSIVE SplitRec(_, _, _, _)
SplitRec(s, i, cur, acc) ==
  IF i > Len(s)
    THEN (IF cur = <<>> THEN acc ELSE Append(acc, cur))
    ELSE IF s[i] \in White
           THEN SplitRec(s, i + 1, <<>>, IF cur = <<>> THEN acc ELSE Append(acc, cur))
           ELSE SplitRec(s, i + 1, Append(cur, s[i]), acc)

\* str.split(): split on runs of whitespace, no empty fields
Split(s) == SplitRec(s, 1, <<>>, <<>>)

IsDigits(f) == f # <<>> /\ \A i \in 1..Len(f) : f[i] \in 48..57

RECURSIVE ParseDigits(_)
ParseDigits(f) ==
  IF f = <<>> THEN 0
  ELSE 10 * ParseDigits(SubSeq(f, 1, Len(f) - 1)) + (f[Len(f)] - 48)

RECURSIVE JoinFields(_)
JoinFields(fs) ==
  IF fs = <<>> THEN <<>>
  ELSE IF Len(fs) = 1 THEN fs[1]
  ELSE fs[1] \o <<SP>> \o JoinFields(Tail(fs))

Dec(n) == <<48 + n>>

RECURSIVE Flatten(_)
Flatten(chunks) ==
  IF chunks = <<>> THEN <<>> ELSE Head(chunks) \o Flatten(Tail(chunks))

\* unicode(bytes): ASCII decoding, defined when every byte is below 128
IsAscii(bs) == \A i \in 1..Len(bs) : bs[i] < 128
Decode(bs) == [i \in 1..Len(bs) |-> bs[i]]

----------------------------------------------------------------------------
(* numpy pieces used by the parsers *)

\* np.zeros((n, d), dtype=float32)
Zeros(n, d) == [i \in 1..n |-> [j \in 1..d |-> 0]]

\* the four bytes of a float32 bit pattern, native (little-endian) order
ToBytes(f) == <<f % 256, (f \div 256) % 256, (f \div 65536) % 256, (f \div 16777216) % 256>>

\* the float32 bit pattern of four bytes
FromBytes(b) == b[1] + 256 * b[2] + 65536 * b[3] + 16777216 * b[4]

EncodeRow(r) == Flatten([i \in 1..Len(r) |-> ToBytes(r[i])])

\* np.fromstring(data, dtype=float32) raises unless the size is a multiple of the item size
FromStringOk(data) == Len(data) % ItemSize = 0

FromString(data) ==
  [i \in 1..(Len(data) \div ItemSize) |->
     FromBytes(SubSeq(data, ItemSize * (i - 1) + 1, ItemSize * i))]

\* vectors[index, :] = arr : numpy accepts arr of the row's length, and broadcasts
\* an arr of length one over the whole row
CanAssignRow(d, arr) == Len(arr) = d \/ Len(arr) = 1

AssignRow(d, arr) == [j \in 1..d |-> IF Len(arr) = 1 THEN arr[1] ELSE arr[j]]

\* line 106: np.dtype(float32).itemsize * layer1_size
BinaryLen(d) == ItemSize * d

\* a token loop that appends newline bytes too
AppendCharKeepNewline(w, ch) == Append(w, <<ch>>)

\* lines 114-115: a byte other than newline is appended to `word`
AppendChar(w, ch) == IF ch # NL THEN Append(w, <<ch>>) ELSE w

\* line 116: b''.join(word)
TokenOf(chunks) == Flatten(chunks)

----------------------------------------------------------------------------
(* Input sources *)

EOF == -1

\* float32 bit patterns found in binary payloads; their bytes include 0x20 and 0x0A
FloatVals == {1063324192, 1074405474}

\* what fin.read(n) may return in payload position: n bytes, or fewer at end of input
PayloadReads(n) ==
  {SubSeq(EncodeRow(r), 1, m) :
     r \in [1..((n + ItemSize - 1) \div ItemSize) -> FloatVals], m \in 0..n}

TextFields == {<<97>>, <<98>>, <<49>>, <<50>>}

\* record lines of a text source: fields joined by single spaces
TextLines == {JoinFields(fs) : fs \in SeqsUpTo(TextFields, MaxDim + 1)}

HeaderLines ==
  {JoinFields(<<Dec(v), Dec(l)>>) : v \in 0..MaxVocab, l \in 0..MaxDim}
    \cup {<<>>, Dec(1), JoinFields(<<Dec(1), Dec(1), Dec(1)>>), JoinFields(<<<<97>>, Dec(1)>>)}

VocabLineSet ==
  {JoinFields(<<t, c>>) : t \in {<<97>>, <<98>>}, c \in {<<49>>, <<50>>}}
    \cup {<<97>>, JoinFields(<<<<97>>, <<97>>>>)}

VocabFiles == SeqsUpTo(VocabLineSet, MaxVocabLines)

----------------------------------------------------------------------------
(* Vocabulary construction (base.py, modelled from the specification) *)

Perms(S) == {v \in [1..Cardinality(S) -> S] : IsInjective(v)}

\* from_counts: the tokens of the mapping in descending order of count,
\* tokens of equal count in any order
CountedOrders(counts) ==
  {v \in Perms(DOMAIN counts) :
     \A i, j \in 1..Len(v) : i < j => counts[v[i]] >= counts[v[j]]}

\* from_tokens: the tokens in list order, a repeated token kept at its first place
RECURSIVE OrderedVocabulary(_)
OrderedVocabulary(ws) ==
  IF ws = <<>> THEN <<>>
  ELSE LET front == OrderedVocabulary(SubSeq(ws, 1, Len(ws) - 1))
           last == ws[Len(ws)]
       IN  IF last \in Range(front) THEN front ELSE Append(front, last)

NoVocab == [given |-> FALSE, words |-> <<>>]
GivenVocab(v) == [given |-> TRUE, words |-> v]

----------------------------------------------------------------------------
(* from_word2vec *)

\* lines 94-96: the count mapping of a count file, or failure on the first bad line
RECURSIVE ParseCounts(_)
ParseCounts(lines) ==
  IF lines = <<>> THEN [ok |-> TRUE, counts |-> <<>>]
  ELSE LET before == ParseCounts(SubSeq(lines, 1, Len(lines) - 1))
           parts == Split(lines[Len(lines)])
       IN  IF ~before.ok THEN before
           ELSE IF Len(parts) # 2 \/ ~IsDigits(parts[2])
                  THEN [ok |-> FALSE, counts |-> <<>>]
                  ELSE [ok |-> TRUE,
                        counts |-> (parts[1] :> ParseDigits(parts[2])) @@ before.counts]

\* `with` leaves the block: the file object _open returned is closed
WithExit(st) == "closed"

\* line 163: `not vocabulary` holds for None and for a vocabulary of length 0
NotVocabulary(lv) == ~lv.given \/ VocabLen(lv.words) = 0

\* lines 152-155
LoadVocabulary ==
  /\ pc = "start"
  /\ IF fvocab = None
       THEN /\ loadVocab' = NoVocab
            /\ pc' = "open"
            /\ UNCHANGED err
       ELSE \E file \in VocabFiles :
              LET r == ParseCounts(file)
              IN  IF r.ok
                    THEN \E v \in CountedOrders(r.counts) :
                           /\ loadVocab' = GivenVocab(v)
                           /\ pc' = "open"
                           /\ UNCHANGED err
                    ELSE /\ pc' = "failed"
                         /\ err' = Error("ValueError", "_from_word2vec_vocab")
                         /\ UNCHANGED loadVocab
  /\ UNCHANGED <<vocabulary, vectors, ret, lastOp, binary, fvocab, srcKind, srcState,
                 vocab_size, layer1_size, consumed, eof, line_no, word, words, matrix,
                 recStart, marks>>

\* lines 21-24 called from line 101 / 124
OpenSource ==
  /\ pc = "open"
  /\ IF srcKind = "path"
       THEN \E ok \in BOOLEAN :
              IF ok THEN /\ srcState' = "open"
                         /\ pc' = "header"
                         /\ UNCHANGED err
                    ELSE /\ pc' = "failed"
                         /\ err' = Error("IOError", "open")
                         /\ UNCHANGED srcState
       ELSE /\ pc' = "header"
            /\ UNCHANGED <<srcState, err>>
  /\ UNCHANGED <<vocabulary, vectors, ret, lastOp, binary, fvocab, srcKind, loadVocab,
                 vocab_size, layer1_size, consumed, eof, line_no, word, words, matrix,
                 recStart, marks>>

\* lines 103-105 / 126-128
ReadHeader ==
  /\ pc = "header"
  /\ \E hdr \in HeaderLines :
       LET fields == Split(hdr)
       IN  IF (\E i \in 1..Len(fields) : ~IsDigits(fields[i])) \/ Len(fields) # 2
             THEN /\ pc' = "failed"
                  /\ err' = Error("ValueError", "header")
                  /\ srcState' = WithExit(srcState)
                  /\ UNCHANGED <<vocab_size, layer1_size, matrix>>
             ELSE /\ vocab_size' = ParseDigits(fields[1])
                  /\ layer1_size' = ParseDigits(fields[2])
                  /\ matrix' = Zeros(ParseDigits(fields[1]), ParseDigits(fields[2]))
                  /\ pc' = IF binary THEN "record" ELSE "line"
                  /\ UNCHANGED <<err, srcState>>
  /\ UNCHANGED <<vocabulary, vectors, ret, lastOp, binary, fvocab, srcKind, loadVocab,
                 consumed, eof, line_no, word, words, recStart, marks>>

\* any read of the source may raise an I/O error, which leaves the `with` block
ReadFails ==
  /\ pc \in {"header", "token", "payload", "line"}
  /\ pc' = "failed"
  /\ err' = Error("IOError", "read")
  /\ srcState' = WithExit(srcState)
  /\ UNCHANGED <<vocabulary, vectors, ret, lastOp, binary, fvocab, srcKind, loadVocab,
                 vocab_size, layer1_size, consumed, eof, line_no, word, words, matrix,
                 recStart, marks>>

\* line 107 and line 120: the head of the record loop, and the return after it
BinNextRecord ==
  /\ pc = "record"
  /\ IF line_no < vocab_size
       THEN /\ word' = <<>>
            /\ recStart' = Len(consumed)
            /\ pc' = "token"
            /\ UNCHANGED srcState
       ELSE /\ pc' = "parsed"
            /\ srcState' = WithExit(srcState)
            /\ UNCHANGED <<word, recStart>>
  /\ UNCHANGED <<vocabulary, vectors, ret, err, lastOp, binary, fvocab, srcKind, loadVocab,
                 vocab_size, layer1_size, consumed, eof, line_no, words, matrix, marks>>

\* reads made so far by the token loop of the current record
TokenReads == (Len(consumed) - recStart) + Cardinality({i \in 1..Len(word) : word[i] = <<>>})

\* lines 110-115: one pass of the token loop
BinReadChar ==
  /\ pc = "token"
  /\ \E ch \in TokBytes \cup {SP, EOF} :
       /\ ch # EOF => ~eof /\ Len(consumed) < MaxBytes
       /\ ch # SP => TokenReads < MaxTokRead
       /\ IF ch = EOF
            THEN \* fin.read(1) returns b'', which is neither b' ' nor b'\n'
                 /\ eof' = TRUE
                 /\ word' = Append(word, <<>>)
                 /\ UNCHANGED <<consumed, pc>>
            ELSE /\ consumed' = Append(consumed, ch)
                 /\ UNCHANGED eof
                 /\ IF ch = SP
                      THEN /\ pc' = "payload"
                           /\ UNCHANGED word
                      ELSE /\ pc' = "token"
                           /\ word' = AppendChar(word, ch)
  /\ UNCHANGED <<vocabulary, vectors, ret, err, lastOp, binary, fvocab, srcKind, srcState,
                 loadVocab, vocab_size, layer1_size, line_no, words, matrix, recStart,
                 marks>>

\* lines 116-119: decode the token, append it, read the payload, store the row
BinReadPayload ==
  /\ pc = "payload"
  /\ LET joined == TokenOf(word)
         n == BinaryLen(layer1_size)
     IN  IF ~IsAscii(joined)
           THEN /\ pc' = "failed"
                /\ err' = Error("UnicodeDecodeError", "unicode")
                /\ srcState' = WithExit(srcState)
                /\ UNCHANGED <<consumed, eof, words, matrix, line_no, marks>>
           ELSE \E data \in PayloadReads(n) :
                  /\ Len(consumed) + Len(data) <= MaxBytes
                  /\ eof => data = <<>>
                  /\ words' = Append(words, Decode(joined))
                  /\ consumed' = consumed \o data
                  /\ eof' = (eof \/ Len(data) < n)
                  /\ IF ~FromStringOk(data)
                       THEN /\ pc' = "failed"
                            /\ err' = Error("ValueError", "fromstring")
                            /\ srcState' = WithExit(srcState)
                            /\ UNCHANGED <<matrix, line_no, marks>>
                       ELSE IF ~CanAssignRow(layer1_size, FromString(data))
                              THEN /\ pc' = "failed"
                                   /\ err' = Error("ValueError", "assign")
                                   /\ srcState' = WithExit(srcState)
                                   /\ UNCHANGED <<matrix, line_no, marks>>
                              ELSE /\ matrix' = [matrix EXCEPT ![line_no + 1] =
                                                   AssignRow(layer1_size, FromString(data))]
                                   /\ marks' = Append(marks,
                                                 [start |-> recStart,
                                                  space |-> Len(consumed),
                                                  end |-> Len(consumed) + Len(data),
                                                  short |-> Len(data) < n])
                                   /\ line_no' = line_no + 1
                                   /\ pc' = "record"
                                   /\ UNCHANGED <<err, srcState>>
  /\ UNCHANGED <<vocabulary, vectors, ret, lastOp, binary, fvocab, srcKind, loadVocab,
                 vocab_size, layer1_size, word, recStart>>

\* float32(field) for the fields of a text record
FloatOk(f) == IsDigits(f)
FloatOf(f) == ParseDigits(f)

\* lines 129-137: one pass of the line loop, or the return after it
TextReadLine ==
  /\ pc = "line"
  /\ \E next \in {<<"eof", <<>>>>} \cup {<<"line", l>> : l \in TextLines} :
       IF next[1] = "eof"
         THEN /\ pc' = "parsed"
              /\ eof' = TRUE
              /\ srcState' = WithExit(srcState)
              /\ UNCHANGED <<consumed, words, matrix, line_no, err>>
         ELSE /\ Len(consumed) < MaxLines
              /\ consumed' = Append(consumed, next[2])
              /\ UNCHANGED eof
              /\ LET parts == Split(next[2])
                 IN  IF Len(parts) # layer1_size + 1
                       THEN /\ pc' = "failed"
                            /\ err' = ErrorOnLine("ValueError", "record", line_no)
                            /\ srcState' = WithExit(srcState)
                            /\ UNCHANGED <<words, matrix, line_no>>
                       ELSE IF \E j \in 2..Len(parts) : ~FloatOk(parts[j])
                              THEN /\ pc' = "failed"
                                   /\ err' = Error("ValueError", "float32")
                                   /\ srcState' = WithExit(srcState)
                                   /\ UNCHANGED <<words, matrix, line_no>>
                              ELSE /\ words' = Append(words, parts[1])
                                   /\ IF line_no >= vocab_size
                                        THEN /\ pc' = "failed"
                                             /\ err' = Error("IndexError", "assign")
                                             /\ srcState' = WithExit(srcState)
                                             /\ UNCHANGED <<matrix, line_no>>
                                        ELSE /\ matrix' = [matrix EXCEPT ![line_no + 1] =
                                                  [j \in 1..layer1_size |-> FloatOf(parts[j + 1])]]
                                             /\ line_no' = line_no + 1
                                             /\ pc' = "line"
                                             /\ UNCHANGED <<err, srcState>>
  /\ UNCHANGED <<vocabulary, vectors, ret, lastOp, binary, fvocab, srcKind, loadVocab,
                 vocab_size, layer1_size, word, recStart, marks>>

\* lines 163-166
BuildEmbedding ==
  /\ pc = "parsed"
  /\ LET voc == IF NotVocabulary(loadVocab) THEN OrderedVocabulary(words)
                ELSE loadVocab.words
     IN  IF SizeMismatch(voc, matrix)
           THEN /\ pc' = "failed"
                /\ err' = Error("ValueError", "__init__")
                /\ UNCHANGED ret
           ELSE /\ pc' = "done"
                /\ ret' = Val("embedding", EmbeddingOf(voc, matrix))
                /\ UNCHANGED err
  /\ UNCHANGED <<vocabulary, vectors, lastOp, binary, fvocab, srcKind, srcState, loadVocab,
                 vocab_size, layer1_size, consumed, eof, line_no, word, words, matrix,
                 recStart, marks>>

----------------------------------------------------------------------------
(* Specifications *)

LoadIdle ==
  /\ loadVocab = NoVocab
  /\ vocab_size = 0
  /\ layer1_size = 0
  /\ consumed = <<>>
  /\ eof = FALSE
  /\ line_no = 0
  /\ word = <<>>
  /\ words = <<>>
  /\ matrix = <<>>
  /\ recStart = 0
  /\ marks = <<>>

\* the container: an empty Embedding has been constructed
Init ==
  /\ vocabulary = <<>>
  /\ vectors = <<>>
  /\ ret = Self
  /\ err = NoErr
  /\ lastOp = <<"new", 0, 0>>
  /\ pc = "idle"
  /\ binary = FALSE
  /\ fvocab = None
  /\ srcKind = "none"
  /\ srcState = "none"
  /\ LoadIdle

Next ==
  \/ \E voc \in Vocabularies, vecs \in Matrices : Construct(voc, vecs)
  \/ \E k \in Tokens : Get(k)
  \/ \E k \in Tokens : Contains(k)
  \/ LenOp
  \/ Iterate
  \/ \E k \in Tokens : Remove(k)
  \/ \E k \in 0..MaxK, inplace \in BOOLEAN : MostFrequent(k, inplace)

Spec == Init /\ [][Next]_vars

\* a call from_word2vec(fname, fvocab, binary) is about to start
InitLoad ==
  /\ vocabulary = <<>>
  /\ vectors = <<>>
  /\ ret = NoVal
  /\ err = NoErr
  /\ lastOp = <<"from_word2vec">>
  /\ pc = "start"
  /\ binary \in BOOLEAN
  /\ fvocab \in {None, "given"}
  /\ srcKind \in {"path", "handle"}
  /\ srcState = IF srcKind = "handle" THEN "open" ELSE "unopened"
  /\ LoadIdle

NextLoad ==
  \/ LoadVocabulary
  \/ OpenSource
  \/ ReadHeader
  \/ ReadFails
  \/ BinNextRecord
  \/ BinReadChar
  \/ BinReadPayload
  \/ TextReadLine
  \/ BuildEmbedding

SpecLoad == InitLoad /\ [][NextLoad]_vars

\* a call from_word2vec(fname, binary=True) without a count file
InitBin == InitLoad /\ binary /\ fvocab = None

NextBin ==
  \/ LoadVocabulary
  \/ OpenSource
  \/ ReadHeader
  \/ ReadFails
  \/ BinNextRecord
  \/ BinReadChar
  \/ BinReadPayload
  \/ BuildEmbedding

SpecBin == InitBin /\ [][NextBin]_vars

----------------------------------------------------------------------------
(* Claims about the container, checked under Spec *)

\* len(), contains(), get() of an Embedding value
EmbLen(voc) == VocabLen(voc)

\* C1: after every completed operation the vector matrix of every Embedding
\* instance (the receiver, and an instance an operation returned) has as many
\* rows as its vocabulary has tokens.
C1_RowsMatchVocabulary ==
  /\ Len(vectors) = VocabLen(vocabulary)
  /\ ret.kind = "embedding" => Len(ret.val.vectors) = VocabLen(ret.val.vocabulary)

\* C1 witness: an in-place trim has completed and left the receiver with two
\* tokens whose vectors differ.
C1_Witness ==
  /\ lastOp[1] = "most_frequent"
  /\ lastOp[3] = TRUE
  /\ Len(vocabulary) = 2
  /\ Len(vectors) = 2
  /\ vectors[1] # vectors[2]

\* C2: a successful remove(token) lowers len() by exactly one, makes
\* contains(token) false, and every other token is still contained and still
\* gets the vector it had before.
C2_RemoveKeepsOthers ==
  [][(lastOp'[1] = "remove" /\ err'.type = "none") =>
       LET k == lastOp'[2]
       IN  /\ VocabContains(vocabulary, k)
           /\ EmbLen(vocabulary') = EmbLen(vocabulary) - 1
           /\ Len(vectors') = Len(vectors) - 1
           /\ ~VocabContains(vocabulary', k)
           /\ \A t \in Range(vocabulary) \ {k} :
                /\ VocabContains(vocabulary', t)
                /\ GetItem(vocabulary', vectors', t) = GetItem(vocabulary, vectors, t)
    ]_vars

\* C2 witness: a removal succeeded and left two tokens with different vectors.
C2_Witness ==
  /\ lastOp[1] = "remove"
  /\ err.type = "none"
  /\ Len(vocabulary) = 2
  /\ vectors[1] # vectors[2]

\* C3: most_frequent(k, inplace=False) leaves the receiver's vocabulary and
\* vectors as they were; the returned instance has min(k, len) tokens, all of
\* them tokens of the receiver, each with the receiver's vector.
C3_TrimCopyLeavesReceiver ==
  [][(lastOp'[1] = "most_frequent" /\ lastOp'[3] = FALSE) =>
       LET k == lastOp'[2]
       IN  /\ vocabulary' = vocabulary
           /\ vectors' = vectors
           /\ err'.type = "none"
           /\ ret'.kind = "embedding"
           /\ EmbLen(ret'.val.vocabulary) = Min(k, EmbLen(vocabulary))
           /\ Len(ret'.val.vectors) = Min(k, EmbLen(vocabulary))
           /\ Range(ret'.val.vocabulary) \subseteq Range(vocabulary)
           /\ \A t \in Range(ret'.val.vocabulary) :
                GetItem(ret'.val.vocabulary, ret'.val.vectors, t)
                  = GetItem(vocabulary, vectors, t)
    ]_vars

\* C3 witness: a copying trim that really cut the receiver down returned an
\* instance, and the receiver's rows differ from one another.
C3_Witness ==
  /\ lastOp[1] = "most_frequent"
  /\ lastOp[3] = FALSE
  /\ ret.kind = "embedding"
  /\ Len(ret.val.vocabulary) = 1
  /\ Len(vocabulary) = 3
  /\ vectors[1] # vectors[3]

\* C5: construction from (vocabulary, vectors) succeeds exactly when the
\* vocabulary length equals the row count; on a mismatch it raises the
\* constructor's ValueError and yields no instance; on success len() equals
\* the vocabulary length and the row count.
C5_ConstructionChecksSizes ==
  lastOp[1] = "new" =>
    LET vocLen == lastOp[2]
        rowCount == lastOp[3]
    IN  /\ (err.type = "none") <=> (vocLen = rowCount)
        /\ vocLen # rowCount =>
             /\ err = Error("ValueError", "__init__")
             /\ ret = NoVal
        /\ vocLen = rowCount =>
             /\ ret = Self
             /\ EmbLen(vocabulary) = vocLen
             /\ EmbLen(vocabulary) = rowCount
             /\ Len(vectors) = rowCount

\* C5 witness: a construction with more rows than tokens was rejected.
C5_Witness ==
  /\ lastOp[1] = "new"
  /\ lastOp[2] < lastOp[3]
  /\ lastOp[2] > 0
  /\ err.type = "ValueError"

----------------------------------------------------------------------------
(* Claims about from_word2vec and its parsers, checked under SpecLoad and,   *)
(* for the binary record framing, under SpecBin                              *)

\* the record loop has stored the row of record i (1-based)
RawToken(i) == SubSeq(consumed, marks[i].start + 1, marks[i].space - 1)
Payload(i) == SubSeq(consumed, marks[i].space + 1, marks[i].end)
DropNewlines(bs) == SelectSeq(bs, LAMBDA b : b # NL)

\* C4: in the Embedding from_word2vec returns, with or without a count file,
\* the token parsed from record i has index i, so get(token_i) is the vector
\* of record i.
C4_RecordOrderIsIndexOrder ==
  pc = "done" =>
    \A i \in 1..Len(words) :
      LET voc == ret.val.vocabulary
      IN  /\ VocabContains(voc, words[i])
          /\ VocabIndex(voc, words[i]) = i - 1
          /\ GetItem(voc, ret.val.vectors, words[i]) = matrix[i]

\* C6: a payload read that comes back shorter than layer1_size * 4 bytes never
\* ends with a row stored for that record: the load fails instead.
C6_ShortPayloadFails ==
  binary => \A i \in 1..Len(marks) : ~marks[i].short

\* C7: when the loader call has ended, a source it opened from a path is
\* closed, and a handle the caller passed in is still open.
C7_ClosesOnlyWhatItOpened ==
  pc \in {"done", "failed"} =>
    /\ srcKind = "path" => srcState # "open"
    /\ srcKind = "handle" => srcState = "open"

\* C8: the text parser returns only after exactly vocab_size record lines, with
\* row i holding the floats of line i; a line of the wrong field count fails
\* with the record error naming its line number, and input with more or fewer
\* lines than vocab_size gives neither a result nor another kind of error.
C8_TextReadsExactlyVocabSize ==
  ~binary =>
    /\ pc = "parsed" =>
         /\ Len(words) = vocab_size
         /\ Len(consumed) = vocab_size
         /\ \A i \in 1..vocab_size :
              LET parts == Split(consumed[i])
              IN  /\ words[i] = parts[1]
                  /\ matrix[i] = [j \in 1..layer1_size |-> FloatOf(parts[j + 1])]
    /\ (pc = "failed" /\ err.at \in {"record", "float32", "assign"}) =>
         err.type = "ValueError"
    /\ (pc = "failed" /\ err.at = "record") => err.line = Len(consumed) - 1

\* C9: once a read of the token loop has found the input exhausted, the binary
\* parser has stopped with an error; it is not still in the loop.
C9_EndOfInputStopsTokenLoop ==
  (binary /\ \E i \in 1..Len(word) : word[i] = <<>>) => pc = "failed"

\* C10: for every binary record whose payload the source held in full, the
\* token is the bytes before the first space with the newlines removed, the
\* space ends the token and is not part of it, the record takes the bytes up to
\* and including the space plus layer1_size * 4, the next record starts right
\* after the payload, and token i sits at list position i beside matrix row i.
C10_BinaryRecordFraming ==
  \A i \in 1..Len(marks) :
    ~marks[i].short =>
      /\ consumed[marks[i].space] = SP
      /\ SP \notin Range(RawToken(i))
      /\ words[i] = Decode(DropNewlines(RawToken(i)))
      /\ marks[i].end = marks[i].space + ItemSize * layer1_size
      /\ matrix[i] = FromString(Payload(i))
      /\ marks[i].start = IF i = 1 THEN 0 ELSE marks[i - 1].end

\* C10 witness: two records with one float each were stored, the second token
\* was written with a newline in front of it, and both payloads contain space
\* and newline bytes.
C10_Witness ==
  /\ pc = "done"
  /\ layer1_size = 1
  /\ Len(marks) = 2
  /\ NL \in Range(RawToken(2))
  /\ words[2] = <<97>>
  /\ words[1] = <<97, 97>>
  /\ matrix[1] # matrix[2]

====
